---- MODULE Spec2Model ----
(***************************************************************************)
(* A model of custom_exporter.py: the polling loop, its five collectors,   *)
(* the fetcher timed_get and the temporal selector _last_past_value.       *)
(*                                                                         *)
(* Time is in whole seconds.  A decoded JSON value is a record [t, v]:     *)
(* t is its Python type after r.json(), v its content.  A dict is a        *)
(* function from its keys; a key whose value is Missing is not in the dict.*)
(***************************************************************************)
EXTENDS Integers, Sequences, FiniteSets, TLC

(* ------------------------------------------------------------------ *)
(* Program constants                                                   *)
(* ------------------------------------------------------------------ *)
SCRAPE_INTERVAL == 20
SO_MIN_PERIOD == 600
\* session.get(url, timeout=10): a request that times out has taken this long
REQUEST_TIMEOUT == 10

(* ------------------------------------------------------------------ *)
(* Bounds of the model                                                 *)
(* ------------------------------------------------------------------ *)
\* cycles run in the scenario where every source may raise ("loop")
MaxCycles == 3
\* cycles run in a scenario that draws one source's responses from its full set
MaxFocusCycles == 2
\* length of the hourly series drawn for the selector
MaxSeriesLen == 3

(* ------------------------------------------------------------------ *)
(* JSON values as Python sees them                                     *)
(* ------------------------------------------------------------------ *)
JNull == [t |-> "null", v |-> 0]
JNum(n) == [t |-> "num", v |-> n]
\* a string holding the decimal text of n, e.g. "36"
JNumStr(n) == [t |-> "numstr", v |-> n]
\* a non-empty string that is neither a number nor an ISO timestamp
JBad == [t |-> "str", v |-> 0]
\* a non-empty string used as a name
JName(s) == [t |-> "name", v |-> s]
JDict(d) == [t |-> "dict", v |-> d]
JList(s) == [t |-> "list", v |-> s]
\* an ISO-8601 timestamp string: local clock reading, and its UTC offset when
\* the string carries one ("Z" is offset 0)
JTime(local, aware, off) == [t |-> "time", v |-> [local |-> local, aware |-> aware, off |-> off]]
Missing == [t |-> "missing", v |-> 0]

\* bool(x)
Truthy(x) ==
    CASE x.t = "null" -> FALSE
      [] x.t = "num" -> x.v # 0
      [] x.t = "dict" -> \E k \in DOMAIN x.v : x.v[k] # Missing
      [] x.t = "list" -> Len(x.v) > 0
      [] OTHER -> TRUE

\* whether `k in x` evaluates at all; on None or a number it raises TypeError
CanContain(x) == x.t \in {"dict", "list", "str", "numstr", "name", "time"}

\* `k in x` for a key k, where it evaluates (no list or string of the model
\* holds a key as element or substring)
In(k, x) == x.t = "dict" /\ k \in DOMAIN x.v /\ x.v[k] # Missing

\* x.get(k) on a dict
Get(x, k) == IF In(k, x) THEN x.v[k] ELSE JNull

\* whether float(x) returns; it raises TypeError on None, a dict or a list and
\* ValueError on a string that is no number
Convertible(x) == x.t \in {"num", "numstr"}

\* float(x), where it returns
Float(x) == x.v

(* ------------------------------------------------------------------ *)
(* Metric values                                                       *)
(* ------------------------------------------------------------------ *)
\* a gauge nobody has set (the registry exposes 0 for it)
Unset == [set |-> FALSE, v |-> 0]
Val(x) == [set |-> TRUE, v |-> x]

GaugeNames == {"weather_temperature_c", "weather_wind_speed_ms", "weather_humidity_percent",
               "air_pm10_ugm3", "air_pm25_ugm3", "air_us_aqi",
               "fx_usd_kzt", "fx_eur_kzt", "crypto_btc_usd", "crypto_eth_usd"}

Apis == {"openmeteo_weather", "openmeteo_air", "frankfurter", "binance", "stackoverflow"}

(* ------------------------------------------------------------------ *)
(* timed_get                                                           *)
(* ------------------------------------------------------------------ *)
\* A response is what the network does to one request:
\*   [status, body, lat]; status "ok" means 2xx with a body that decodes to `body`.
Statuses == {"ok", "conn_error", "timeout", "http_error", "bad_json"}

\* the exception the try body of timed_get raises, "none" when it returns
Raised(resp) ==
    CASE resp.status = "conn_error" -> "ConnectionError"
      [] resp.status = "timeout" -> "Timeout"
      [] resp.status = "http_error" -> "HTTPError"
      [] resp.status = "bad_json" -> "JSONDecodeError"
      [] OTHER -> "none"

\* `except Exception` catches only requests' exceptions (JSONDecodeError of
\* json is a ValueError, not a RequestException)
CaughtRequestsOnly(e) == e \in {"ConnectionError", "Timeout", "HTTPError"}

\* `except Exception`: every exception the body can raise is an Exception
Caught(e) == e \in {"ConnectionError", "Timeout", "HTTPError", "JSONDecodeError"}

\* the triple timed_get returns; exc is the exception it lets through, if any
timed_get(resp) ==
    LET e == Raised(resp) IN
    IF e = "none"
    THEN [data |-> resp.body, latency |-> resp.lat, err |-> "none", exc |-> "none"]
    ELSE IF Caught(e)
    THEN [data |-> JNull, latency |-> resp.lat, err |-> e, exc |-> "none"]
    ELSE [data |-> JNull, latency |-> 0, err |-> "none", exc |-> e]

\* a failure mode is counted as a success too
SuccessIncAlways(resp) == 1

\* api_success_total.labels(api_name).inc() is reached
SuccessInc(resp) == IF Raised(resp) = "none" THEN 1 ELSE 0

\* api_fail_total.labels(api_name).inc() is reached
FailInc(resp) == IF Raised(resp) # "none" /\ Caught(Raised(resp)) THEN 1 ELSE 0

(* ------------------------------------------------------------------ *)
(* _parse_iso_ts and _last_past_value                                  *)
(* ------------------------------------------------------------------ *)
\* the UTC instant of a timestamp, as [ok, at]; ok is FALSE where the code
\* returns None (not a string, or no ISO timestamp)
parse_iso_ts(ts) ==
    IF ts.t # "time" THEN [ok |-> FALSE, at |-> 0]
    ELSE IF ts.v.aware THEN [ok |-> TRUE, at |-> ts.v.local - ts.v.off]
    ELSE [ok |-> TRUE, at |-> ts.v.local]

None == [ok |-> FALSE, v |-> 0]
Some(x) == [ok |-> TRUE, v |-> x]

\* the backward scan takes the first index instead of the last
RECURSIVE ScanForward(_, _, _, _)
ScanForward(times, values, now, i) ==
    IF i > Len(times) THEN None
    ELSE LET dt == parse_iso_ts(times[i]) IN
         IF dt.ok /\ dt.at <= now /\ values[i] # JNull
         THEN IF Convertible(values[i]) THEN Some(Float(values[i])) ELSE None
         ELSE ScanForward(times, values, now, i + 1)

ScanFromStart(times, values, now, i) == ScanForward(times, values, now, 1)

\* for i in range(len(times) - 1, -1, -1), from index i (1-based) down
RECURSIVE Scan(_, _, _, _)
Scan(times, values, now, i) ==
    IF i < 1 THEN None
    ELSE LET dt == parse_iso_ts(times[i]) IN
         IF ~dt.ok THEN Scan(times, values, now, i - 1)
         ELSE IF dt.at <= now
         THEN IF values[i] # JNull
              THEN IF Convertible(values[i]) THEN Some(Float(values[i])) ELSE None
              ELSE Scan(times, values, now, i - 1)
         ELSE Scan(times, values, now, i - 1)

\* _last_past_value(hourly, key) at now_utc = now; hourly is a dict
last_past_value(hourly, key, now) ==
    LET times == Get(hourly, "time")
        values == Get(hourly, key)
    IN IF times.t # "list" \/ values.t # "list" THEN None
       ELSE IF Len(times.v) # Len(values.v) \/ Len(times.v) = 0 THEN None
       ELSE Scan(times.v, values.v, now, Len(times.v))

(* ------------------------------------------------------------------ *)
(* State                                                               *)
(* ------------------------------------------------------------------ *)
VARIABLES
    pc,                 \* where the loop thread is: the next request, or "sleep"
    clock,              \* time.time()
    cycle,              \* iterations of `while True` completed
    scenario,           \* which source's responses range over its full set in this run
    gauge,              \* the unlabelled gauges, by metric name
    so_tag_count,       \* children of so_tag_count, by tag label
    api_success_total, api_fail_total,
    api_latency_count, api_latency_sum,   \* the Summary api_latency_seconds
    api_last_scrape,    \* api_last_scrape_timestamp_seconds
    LAST_SO_POLL,
    ret,                \* (data, latency, err) of the latest timed_get
    btc_ret,            \* (btc, l1, e1) of poll_crypto
    ran,                \* collectors invoked in the current cycle
    fault,              \* the collector whose exception ended the current cycle
    run,                \* the current collector run: its requests and their responses
    nreq,               \* requests issued since start
    so_req_times,       \* when each stackoverflow request was issued
    sel                 \* the selector taken alone: its input and result

health == <<api_success_total, api_fail_total, api_latency_count, api_latency_sum, api_last_scrape>>
metrics == <<gauge, so_tag_count>>
hist == <<ran, fault, run, nreq, so_req_times>>
vars == <<pc, clock, cycle, scenario, gauge, so_tag_count, api_success_total,
          api_fail_total, api_latency_count, api_latency_sum, api_last_scrape,
          LAST_SO_POLL, ret, btc_ret, ran, fault, run, nreq, so_req_times, sel>>

Urls == {"weather", "air_current", "air_hourly", "fx", "btc", "eth", "so"}

ApiOf(url) ==
    CASE url = "weather" -> "openmeteo_weather"
      [] url \in {"air_current", "air_hourly"} -> "openmeteo_air"
      [] url = "fx" -> "frankfurter"
      [] url \in {"btc", "eth"} -> "binance"
      [] OTHER -> "stackoverflow"

Scenarios == {"loop"} \cup Apis

(* ------------------------------------------------------------------ *)
(* The network: what a request can be answered with                    *)
(* ------------------------------------------------------------------ *)
\* the process starts a few seconds before the top of an hour
Hour == 60 * 60
StartTime == 2 * Hour - 5
PastHour == StartTime + 5 - Hour
ThisHour == StartTime + 5
NextHour == StartTime + 5 + Hour
\* UTC+5 (Asia/Almaty), as timezone=auto may report it
Offset == 5 * Hour

Resp(status, body, lat) == [status |-> status, body |-> body, lat |-> lat]

Failures == {Resp("conn_error", JNull, 1), Resp("timeout", JNull, REQUEST_TIMEOUT),
             Resp("http_error", JNull, 1), Resp("bad_json", JNull, 1)}

\* bodies that decode but are no object with the expected section:
\* null, a number, {} and an object with other keys only
OddBodies == {JNull, JNum(5), JDict([other |-> Missing]), JDict([other |-> JNum(1)])}

Cur(t, w, h) == JDict([temperature_2m |-> t, wind_speed_10m |-> w, relative_humidity_2m |-> h])
WithCurrent(c) == JDict([current |-> c, other |-> JNum(1)])

WeatherOk == WithCurrent(Cur(JNum(18), JNum(36), JNum(54)))
WeatherBodies == OddBodies \cup
    { WithCurrent(c) : c \in {
        Cur(JNum(18), JNum(36), JNum(54)),
        Cur(JNum(36), JNum(18), JNumStr(36)),
        Cur(JNum(36), Missing, JNum(18)),
        Cur(JNum(36), JNull, JNum(18)),
        Cur(JBad, JNum(18), JNum(18)),
        Cur(JNum(54), JNum(18), JBad),
        Cur(Missing, Missing, Missing),
        JNull, JNum(5) } }

Air(a, b, c) == JDict([pm10 |-> a, pm2_5 |-> b, us_aqi |-> c])
AirOk == WithCurrent(Air(JNum(18), JNum(36), JNum(54)))
AirCurrentBodies == OddBodies \cup
    { WithCurrent(c) : c \in {
        Air(JNum(18), JNum(36), JNum(54)),
        Air(JNum(36), JNull, JNumStr(18)),
        Air(JNull, JNull, JNull),
        Air(Missing, Missing, Missing),
        Air(JNum(54), JBad, JNum(18)),
        JNum(5) } }

Hourly(times, a, b, c) ==
    JDict([hourly |-> JDict([time |-> times, pm10 |-> a, pm2_5 |-> b, us_aqi |-> c]),
           other |-> JNum(1)])
Naive(at) == JTime(at, FALSE, 0)
Aware(at) == JTime(at + Offset, TRUE, Offset)
Times3 == JList(<<Naive(PastHour), Naive(ThisHour), Naive(NextHour)>>)
HourlyOk == Hourly(Times3, JList(<<JNum(18), JNum(36), JNum(54)>>),
                   JList(<<JNum(36), JNum(54), JNum(18)>>),
                   JList(<<JNum(54), JNum(18), JNum(36)>>))
AirHourlyBodies == OddBodies \cup {
    HourlyOk,
    \* null and unconvertible values at the latest past hour, a short list, a missing key
    Hourly(Times3, JList(<<JNum(18), JNull, JNum(54)>>),
           JList(<<JNum(36), JBad, JNum(18)>>), JList(<<JNum(54), JNum(18)>>)),
    Hourly(JList(<<Aware(PastHour), JBad, Aware(NextHour)>>),
           JList(<<JNumStr(36), JNum(18), JNum(54)>>),
           JList(<<JNull, JNull, JNull>>), Missing),
    \* every hour in the future
    Hourly(JList(<<Naive(NextHour), Naive(NextHour + Hour)>>),
           JList(<<JNum(18), JNum(36)>>), JList(<<JNum(18), JNum(36)>>),
           JList(<<JNum(18), JNum(36)>>)),
    JDict([hourly |-> JNum(5), other |-> JNum(1)]) }

Rates(k, e) == JDict([rates |-> JDict([KZT |-> k, EUR |-> e]), other |-> JNum(1)])
FxOk == Rates(JNum(18), JNum(36))
FxBodies == OddBodies \cup {
    FxOk, Rates(JNumStr(36), JNum(54)), Rates(JNull, JNum(54)), Rates(Missing, JNum(18)),
    Rates(JBad, JNum(54)), Rates(JNum(54), JBad),
    JDict([rates |-> JNull, other |-> JNum(1)]) }

Ticker(p) == JDict([price |-> p, symbol |-> JBad])
BtcOk == Ticker(JNumStr(18))
EthOk == Ticker(JNumStr(36))
TickerBodies == {JNull, JNum(5), JDict([other |-> JNum(1)]),
                 Ticker(JNumStr(18)), Ticker(JNum(54)), Ticker(JNull), Ticker(JBad)}

Tags == {"tensorflow", "linux"}
Item(n, c) == JDict([name |-> n, count |-> c])
Items(s) == JDict([items |-> s, other |-> JNum(1)])
SoOk == Items(JList(<<Item(JName("tensorflow"), JNum(18)), Item(JName("linux"), JNum(36))>>))
SoBodies == OddBodies \cup {
    SoOk,
    Items(JList(<<Item(JName("linux"), JNum(54))>>)),
    Items(JList(<<Item(JName("tensorflow"), JBad), Item(JName("linux"), JNum(54))>>)),
    Items(JList(<<Item(JName("linux"), JNull), Item(Missing, JNum(18)),
                  Item(JName("tensorflow"), JNumStr(36))>>)),
    Items(JList(<<JNum(5), Item(JName("linux"), JNum(18))>>)),
    Items(JList(<<>>)),
    Items(JNum(5)) }

OkBody(url) ==
    CASE url = "weather" -> WeatherOk
      [] url = "air_current" -> AirOk
      [] url = "air_hourly" -> HourlyOk
      [] url = "fx" -> FxOk
      [] url = "btc" -> BtcOk
      [] url = "eth" -> EthOk
      [] OTHER -> SoOk

Bodies(url) ==
    CASE url = "weather" -> WeatherBodies
      [] url = "air_current" -> AirCurrentBodies
      [] url = "air_hourly" -> AirHourlyBodies
      [] url = "fx" -> FxBodies
      [] url \in {"btc", "eth"} -> TickerBodies
      [] OTHER -> SoBodies

\* every answer the model knows for a URL
Rich(url) == Failures \cup { Resp("ok", b, 1) : b \in Bodies(url) }

\* the answers of the scenario "loop": the expected one, a body that is a bare
\* number (poll_crypto cannot raise on it, and is given none), and for the
\* air-quality current request an object without "current"
LoopResp(url) ==
    {Resp("ok", OkBody(url), 1)}
      \cup (IF url \in {"btc", "eth"} THEN {} ELSE {Resp("ok", JNum(5), 1)})
      \cup (IF url = "air_current" THEN {Resp("ok", JDict([other |-> JNum(1)]), 1)} ELSE {})

\* the answers outside the last cycle of a scenario: the expected one, and for
\* the scenario's own source a refused connection
Plain(url) ==
    {Resp("ok", OkBody(url), 1)}
      \cup (IF scenario = ApiOf(url) THEN {Resp("conn_error", JNull, 1)} ELSE {})

Responses(url) ==
    IF scenario = "loop" THEN LoopResp(url)
    ELSE IF scenario = ApiOf(url) /\ cycle = MaxFocusCycles - 1 THEN Rich(url)
    ELSE Plain(url)

CycleBound == IF scenario = "loop" THEN MaxCycles ELSE MaxFocusCycles

\* time.sleep(SCRAPE_INTERVAL) returns after at least that long; the process
\* may be descheduled or suspended for longer
SleepOverrun == IF scenario = "loop" THEN {0, 280, 580} ELSE {0, 580}

(* ------------------------------------------------------------------ *)
(* What the collectors do with a response                              *)
(* ------------------------------------------------------------------ *)
\* What the test before parsing does with r = (data, latency, err) and the
\* expected top-level key:  err or not data or key not in data.
\*   "raise":  an exception leaves the collector (timed_get's own, or the
\*             TypeError of `key in data` on a number)
\*   "return": the test is true          "parse": the section is there
Guard(r, key) ==
    IF r.exc # "none" THEN "raise"
    ELSE IF r.err # "none" \/ ~Truthy(r.data) THEN "return"
    ELSE IF ~CanContain(r.data) THEN "raise"
    ELSE IF ~In(key, r.data) THEN "return"
    ELSE "parse"

FieldSpec(key, name, skipNull, kmh) == [key |-> key, gauge |-> name, skipNull |-> skipNull, kmh |-> kmh]

\* float(x), and / 3.6 for the wind speed (the model's speeds are multiples of 18 km/h)
Conv(s, x) == IF s.kmh THEN (Float(x) * 10) \div 36 ELSE Float(x)

\* The statements `if key in c [and c[key] is not None]: gauge.set(float(c[key]))`
\* from the i-th on, inside one try: [g, ok], ok FALSE when one of them raised.
RECURSIVE SetFields(_, _, _, _)
SetFields(g, c, specs, i) ==
    IF i > Len(specs) THEN [g |-> g, ok |-> TRUE]
    ELSE LET s == specs[i] IN
         IF ~CanContain(c) THEN [g |-> g, ok |-> FALSE]
         ELSE IF ~In(s.key, c) THEN SetFields(g, c, specs, i + 1)
         ELSE IF s.skipNull /\ c.v[s.key] = JNull THEN SetFields(g, c, specs, i + 1)
         ELSE IF ~Convertible(c.v[s.key]) THEN [g |-> g, ok |-> FALSE]
         ELSE SetFields([g EXCEPT ![s.gauge] = Val(Conv(s, c.v[s.key]))], c, specs, i + 1)

WeatherSpecs == <<FieldSpec("temperature_2m", "weather_temperature_c", FALSE, FALSE),
                  FieldSpec("wind_speed_10m", "weather_wind_speed_ms", FALSE, TRUE),
                  FieldSpec("relative_humidity_2m", "weather_humidity_percent", FALSE, FALSE)>>
AirSpecs == <<FieldSpec("pm10", "air_pm10_ugm3", TRUE, FALSE),
              FieldSpec("pm2_5", "air_pm25_ugm3", TRUE, FALSE),
              FieldSpec("us_aqi", "air_us_aqi", TRUE, FALSE)>>
FxSpecs == <<FieldSpec("KZT", "fx_usd_kzt", TRUE, FALSE),
             FieldSpec("EUR", "fx_eur_kzt", TRUE, FALSE)>>

\* a failed fetch clears the weather gauges
weather_body_clearing(g, r) ==
    LET o == Guard(r, "current") IN
    IF o = "parse"
    THEN [g |-> SetFields(g, r.data.v.current, WeatherSpecs, 1).g, raised |-> FALSE]
    ELSE [g |-> IF r.err # "none" THEN [g EXCEPT !["weather_temperature_c"] = Unset] ELSE g,
          raised |-> o = "raise"]

\* poll_openmeteo_weather after its fetch: the gauges, and whether it raised
weather_body(g, r) ==
    LET o == Guard(r, "current") IN
    IF o = "parse"
    THEN [g |-> SetFields(g, r.data.v.current, WeatherSpecs, 1).g, raised |-> FALSE]
    ELSE [g |-> g, raised |-> o = "raise"]

\* a "current" section that sets no gauge sends the collector to the fallback
air_current_body_needing_a_value(g, r) ==
    LET o == Guard(r, "current") IN
    IF o = "raise" THEN [g |-> g, next |-> "raise"]
    ELSE IF o = "return" THEN [g |-> g, next |-> "hourly"]
    ELSE LET p == SetFields(g, r.data.v.current, AirSpecs, 1) IN
         [g |-> p.g,
          next |-> IF p.ok /\ \E i \in 1..Len(AirSpecs) :
                                  /\ In(AirSpecs[i].key, r.data.v.current)
                                  /\ r.data.v.current.v[AirSpecs[i].key] # JNull
                   THEN "return" ELSE "hourly"]

\* poll_openmeteo_air after its first fetch: next is "return", "hourly" (go on
\* to the fallback) or "raise"
air_current_body(g, r) ==
    LET o == Guard(r, "current") IN
    IF o = "raise" THEN [g |-> g, next |-> "raise"]
    ELSE IF o = "return" THEN [g |-> g, next |-> "hourly"]
    ELSE LET p == SetFields(g, r.data.v.current, AirSpecs, 1) IN
         [g |-> p.g, next |-> IF p.ok THEN "return" ELSE "hourly"]

SetIfSome(g, name, x) == IF x.ok THEN [g EXCEPT ![name] = Val(x.v)] ELSE g

\* poll_openmeteo_air after its second fetch, at now_utc = now
air_hourly_body(g, r, now) ==
    LET o == Guard(r, "hourly") IN
    IF o # "parse" THEN [g |-> g, raised |-> o = "raise"]
    ELSE LET h == r.data.v.hourly IN
         IF h.t # "dict" THEN [g |-> g, raised |-> FALSE]
         ELSE LET g1 == SetIfSome(g, "air_pm10_ugm3", last_past_value(h, "pm10", now))
                  g2 == SetIfSome(g1, "air_pm25_ugm3", last_past_value(h, "pm2_5", now))
                  g3 == SetIfSome(g2, "air_us_aqi", last_past_value(h, "us_aqi", now))
              IN [g |-> g3, raised |-> FALSE]

\* poll_fx after its fetch
fx_body(g, r) ==
    LET o == Guard(r, "rates") IN
    IF o = "parse"
    THEN [g |-> SetFields(g, r.data.v.rates, FxSpecs, 1).g, raised |-> FALSE]
    ELSE [g |-> g, raised |-> o = "raise"]

\* `if d and "price" in d and d["price"] is not None: gauge.set(float(d["price"]))`
TickerStep(g, d, name) ==
    IF ~Truthy(d) THEN [g |-> g, ok |-> TRUE]
    ELSE IF ~CanContain(d) THEN [g |-> g, ok |-> FALSE]
    ELSE IF ~In("price", d) THEN [g |-> g, ok |-> TRUE]
    ELSE IF d.v.price = JNull THEN [g |-> g, ok |-> TRUE]
    ELSE IF ~Convertible(d.v.price) THEN [g |-> g, ok |-> FALSE]
    ELSE [g |-> [g EXCEPT ![name] = Val(Float(d.v.price))], ok |-> TRUE]

\* a failed BTC request ends poll_crypto before ETH is published
crypto_body_btc_first(g, b, e) ==
    IF b.err # "none" THEN g
    ELSE LET a == TickerStep(g, b.data, "crypto_btc_usd") IN
         IF a.ok THEN TickerStep(a.g, e.data, "crypto_eth_usd").g ELSE a.g

\* the try block of poll_crypto, b and e the two triples
crypto_body(g, b, e) ==
    LET a == TickerStep(g, b.data, "crypto_btc_usd") IN
    IF a.ok THEN TickerStep(a.g, e.data, "crypto_eth_usd").g ELSE a.g

\* so_tag_count.labels(tag=n): the child is created, at 0, when it is new
Child(tags, n) ==
    IF n \in DOMAIN tags THEN tags
    ELSE [t \in DOMAIN tags \cup {n} |-> IF t = n THEN Unset ELSE tags[t]]

\* the counts are added to the tag's gauge
SetTagAdding(tags, n, x) ==
    [t \in DOMAIN tags \cup {n} |->
        IF t = n THEN Val((IF n \in DOMAIN tags THEN tags[n].v ELSE 0) + x) ELSE tags[t]]

\* so_tag_count.labels(tag=n).set(x)
SetTag(tags, n, x) == [t \in DOMAIN tags \cup {n} |-> IF t = n THEN Val(x) ELSE tags[t]]

\* the loop over data["items"] from the i-th item on, inside one try
RECURSIVE SoItems(_, _, _)
SoItems(tags, items, i) ==
    IF i > Len(items) THEN tags
    ELSE LET item == items[i] IN
         IF item.t # "dict" THEN tags
         ELSE LET name == Get(item, "name")
                  cnt == Get(item, "count")
              IN IF Truthy(name) /\ cnt # JNull
                 THEN IF Convertible(cnt)
                      THEN SoItems(SetTag(tags, name.v, Float(cnt)), items, i + 1)
                      ELSE Child(tags, name.v)
                 ELSE SoItems(tags, items, i + 1)

\* the tag counts are rebuilt from each response
so_body_rebuilding(tags, r) ==
    LET o == Guard(r, "items") IN
    IF o # "parse" THEN [tags |-> tags, raised |-> o = "raise"]
    ELSE LET items == r.data.v.items IN
         [tags |-> IF items.t = "list" THEN SoItems([t \in {} |-> Unset], items.v, 1) ELSE tags,
          raised |-> FALSE]

\* poll_stackoverflow after its fetch
so_body(tags, r) ==
    LET o == Guard(r, "items") IN
    IF o # "parse" THEN [tags |-> tags, raised |-> o = "raise"]
    ELSE LET items == r.data.v.items IN
         [tags |-> IF items.t = "list" THEN SoItems(tags, items.v, 1) ELSE tags,
          raised |-> FALSE]

\* time.time() - LAST_SO_POLL < SO_MIN_PERIOD
GateClosed(now, last) == now - last < SO_MIN_PERIOD

(* ------------------------------------------------------------------ *)
(* Initial state                                                       *)
(* ------------------------------------------------------------------ *)
NoRet == [data |-> JNull, latency |-> 0, err |-> "none", exc |-> "none"]
NoRun == [coll |-> "none", urls |-> <<>>, resps |-> <<>>]
NoSel == [h |-> JNull, now |-> 0, out |-> None, done |-> FALSE]

InitProgram ==
    /\ pc = "weather"
    /\ clock = StartTime
    /\ cycle = 0
    /\ gauge = [n \in GaugeNames |-> Unset]
    /\ so_tag_count = [t \in {} |-> Unset]
    /\ api_success_total = [a \in Apis |-> 0]
    /\ api_fail_total = [a \in Apis |-> 0]
    /\ api_latency_count = [a \in Apis |-> 0]
    /\ api_latency_sum = [a \in Apis |-> 0]
    /\ api_last_scrape = [a \in Apis |-> Unset]
    /\ LAST_SO_POLL = 0
    /\ ret = NoRet
    /\ btc_ret = NoRet
    /\ ran = {}
    /\ fault = "none"
    /\ run = NoRun
    /\ nreq = 0
    /\ so_req_times = <<>>

Init ==
    /\ InitProgram
    /\ scenario \in Scenarios
    /\ sel = NoSel

(* ------------------------------------------------------------------ *)
(* Actions                                                             *)
(* ------------------------------------------------------------------ *)
\* api_latency_seconds.labels(api).observe(latency): one more observation
Observe(count, api, r) == [count EXCEPT ![api] = @ + 1]

\* One request: timed_get(api, url) and the two bookkeeping statements after it.
\* The request takes resp.lat seconds.  `first` tells the collector's first request.
Fetch(url, resp, coll, first) ==
    LET api == ApiOf(url)
        r == timed_get(resp)
    IN /\ ret' = r
       /\ clock' = clock + resp.lat
       /\ api_success_total' = [api_success_total EXCEPT ![api] = @ + SuccessInc(resp)]
       /\ api_fail_total' = [api_fail_total EXCEPT ![api] = @ + FailInc(resp)]
       /\ IF r.exc = "none"
          THEN /\ api_latency_count' = Observe(api_latency_count, api, r)
               /\ api_latency_sum' = [api_latency_sum EXCEPT ![api] = @ + r.latency]
               /\ api_last_scrape' = [api_last_scrape EXCEPT ![api] = Val(clock + resp.lat)]
          ELSE UNCHANGED <<api_latency_count, api_latency_sum, api_last_scrape>>
       /\ nreq' = nreq + 1
       /\ run' = IF first
                 THEN [coll |-> coll, urls |-> <<url>>, resps |-> <<resp>>]
                 ELSE [run EXCEPT !.urls = Append(@, url), !.resps = Append(@, resp)]

\* nothing catches the exception: the loop thread ends
LeaveUncaught(coll, raised, next) ==
    /\ pc' = IF raised THEN "dead" ELSE next
    /\ fault' = IF raised THEN coll ELSE fault

\* the exception is caught around the one collector, and the cycle goes on
LeavePerCollector(coll, raised, next) ==
    /\ pc' = IF next = "air_hourly" THEN "fx" ELSE next
    /\ fault' = IF raised THEN coll ELSE fault

\* the handler starts the next turn at once, without the sleep
LeaveRestarting(coll, raised, next) ==
    /\ pc' = IF raised THEN "weather" ELSE next
    /\ fault' = IF raised THEN coll ELSE fault

\* the collector returns to the loop, or its exception reaches `except Exception`
\* of loop(), which logs it and goes to sleep
Leave(coll, raised, next) ==
    /\ pc' = IF raised THEN "sleep" ELSE next
    /\ fault' = IF raised THEN coll ELSE fault

poll_openmeteo_weather ==
    /\ pc = "weather"
    /\ \E resp \in Responses("weather") :
         /\ Fetch("weather", resp, "weather", TRUE)
         /\ LET out == weather_body(gauge, timed_get(resp)) IN
              /\ gauge' = out.g
              /\ Leave("weather", out.raised, "air_current")
    /\ ran' = ran \cup {"weather"}
    /\ UNCHANGED <<cycle, scenario, so_tag_count, LAST_SO_POLL, btc_ret, so_req_times, sel>>

\* poll_openmeteo_air up to the end of its attempt at "current"
poll_openmeteo_air_current ==
    /\ pc = "air_current"
    /\ \E resp \in Responses("air_current") :
         /\ Fetch("air_current", resp, "air", TRUE)
         /\ LET out == air_current_body(gauge, timed_get(resp)) IN
              /\ gauge' = out.g
              /\ Leave("air", out.next = "raise",
                       IF out.next = "hourly" THEN "air_hourly" ELSE "fx")
    /\ ran' = ran \cup {"air"}
    /\ UNCHANGED <<cycle, scenario, so_tag_count, LAST_SO_POLL, btc_ret, so_req_times, sel>>

\* poll_openmeteo_air from its fallback request on
poll_openmeteo_air_hourly ==
    /\ pc = "air_hourly"
    /\ \E resp \in Responses("air_hourly") :
         /\ Fetch("air_hourly", resp, "air", FALSE)
         /\ LET out == air_hourly_body(gauge, timed_get(resp), clock + resp.lat) IN
              /\ gauge' = out.g
              /\ Leave("air", out.raised, "fx")
    /\ UNCHANGED <<cycle, scenario, so_tag_count, LAST_SO_POLL, btc_ret, ran, so_req_times, sel>>

poll_fx ==
    /\ pc = "fx"
    /\ \E resp \in Responses("fx") :
         /\ Fetch("fx", resp, "fx", TRUE)
         /\ LET out == fx_body(gauge, timed_get(resp)) IN
              /\ gauge' = out.g
              /\ Leave("fx", out.raised, "btc")
    /\ ran' = ran \cup {"fx"}
    /\ UNCHANGED <<cycle, scenario, so_tag_count, LAST_SO_POLL, btc_ret, so_req_times, sel>>

\* poll_crypto up to its bookkeeping of the BTC request
poll_crypto_btc ==
    /\ pc = "btc"
    /\ \E resp \in Responses("btc") :
         /\ Fetch("btc", resp, "crypto", TRUE)
         /\ btc_ret' = timed_get(resp)
         /\ Leave("crypto", timed_get(resp).exc # "none", "eth")
    /\ ran' = ran \cup {"crypto"}
    /\ UNCHANGED <<cycle, scenario, gauge, so_tag_count, LAST_SO_POLL, so_req_times, sel>>

\* poll_crypto from the ETH request on
poll_crypto_eth ==
    /\ pc = "eth"
    /\ \E resp \in Responses("eth") :
         /\ Fetch("eth", resp, "crypto", FALSE)
         /\ IF timed_get(resp).exc # "none"
            THEN gauge' = gauge
            ELSE gauge' = crypto_body(gauge, btc_ret, timed_get(resp))
         /\ Leave("crypto", timed_get(resp).exc # "none", "so")
    /\ UNCHANGED <<cycle, scenario, so_tag_count, LAST_SO_POLL, btc_ret, ran, so_req_times, sel>>

\* the gate is armed only when the request has succeeded
poll_stackoverflow_arming_after ==
    /\ pc = "so"
    /\ ran' = ran \cup {"so"}
    /\ IF GateClosed(clock, LAST_SO_POLL)
       THEN /\ pc' = "sleep"
            /\ run' = [coll |-> "so", urls |-> <<>>, resps |-> <<>>]
            /\ UNCHANGED <<clock, so_tag_count, health, LAST_SO_POLL, ret, fault, nreq, so_req_times>>
       ELSE /\ so_req_times' = Append(so_req_times, clock)
            /\ \E resp \in Responses("so") :
                 /\ Fetch("so", resp, "so", TRUE)
                 /\ LAST_SO_POLL' = IF timed_get(resp).err = "none" THEN clock ELSE LAST_SO_POLL
                 /\ LET out == so_body(so_tag_count, timed_get(resp)) IN
                      /\ so_tag_count' = out.tags
                      /\ Leave("so", out.raised, "sleep")
    /\ UNCHANGED <<cycle, scenario, gauge, btc_ret, sel>>

poll_stackoverflow ==
    /\ pc = "so"
    /\ ran' = ran \cup {"so"}
    /\ IF GateClosed(clock, LAST_SO_POLL)
       THEN /\ pc' = "sleep"
            /\ run' = [coll |-> "so", urls |-> <<>>, resps |-> <<>>]
            /\ UNCHANGED <<clock, so_tag_count, health, LAST_SO_POLL, ret, fault, nreq, so_req_times>>
       ELSE /\ LAST_SO_POLL' = clock
            /\ so_req_times' = Append(so_req_times, clock)
            /\ \E resp \in Responses("so") :
                 /\ Fetch("so", resp, "so", TRUE)
                 /\ LET out == so_body(so_tag_count, timed_get(resp)) IN
                      /\ so_tag_count' = out.tags
                      /\ Leave("so", out.raised, "sleep")
    /\ UNCHANGED <<cycle, scenario, gauge, btc_ret, sel>>

\* time.sleep(SCRAPE_INTERVAL) and the next turn of `while True`
sleep ==
    /\ pc = "sleep"
    /\ cycle + 1 < CycleBound
    /\ \E d \in SleepOverrun : clock' = clock + SCRAPE_INTERVAL + d
    /\ pc' = "weather"
    /\ cycle' = cycle + 1
    /\ ran' = {}
    /\ fault' = "none"
    /\ UNCHANGED <<scenario, gauge, so_tag_count, health, LAST_SO_POLL, ret, btc_ret,
                   run, nreq, so_req_times, sel>>

Next ==
    \/ poll_openmeteo_weather
    \/ poll_openmeteo_air_current
    \/ poll_openmeteo_air_hourly
    \/ poll_fx
    \/ poll_crypto_btc
    \/ poll_crypto_eth
    \/ poll_stackoverflow
    \/ sleep

Spec == Init /\ [][Next]_vars

\* The loop thread is the only thread that takes steps, and each of its steps
\* ends: a request returns or times out, a sleep returns.
FairSpec == Init /\ [][Next]_vars /\ WF_vars(Next)

(* ------------------------------------------------------------------ *)
(* The selector taken alone                                            *)
(* ------------------------------------------------------------------ *)
\* now_utc of the selector's runs, and the series it is given: hours around
\* SelNow (one of them written with its UTC offset, one unparseable), and
\* values that are numbers, null or no number
SelNow == ThisHour
SelTimes == {Naive(SelNow - 3 * Hour), Naive(SelNow - Hour), Aware(SelNow + Hour), JBad}
SelValues == {JNull, JNum(1), JNum(2), JNum(3), JBad}
SelNows == {SelNow, SelNow - 2 * Hour}

Series(ts, vs) == JDict([time |-> ts, pm10 |-> vs])

\* series that are not valid: lists of different lengths, a missing key, a
\* value that is no list, empty lists
BadSeries ==
    { Series(JList(<<Naive(SelNow - Hour)>>), JList(<<JNum(1), JNum(2)>>)),
      Series(JList(<<Naive(SelNow - Hour)>>), Missing),
      Series(JNull, JList(<<JNum(1)>>)),
      Series(JList(<<>>), JList(<<>>)) }

InitSel ==
    /\ InitProgram
    /\ scenario = "loop"
    /\ \E now \in SelNows :
         \/ \E n \in 1..MaxSeriesLen : \E ts \in [1..n -> SelTimes] : \E vs \in [1..n -> SelValues] :
               sel = [h |-> Series(JList(ts), JList(vs)), now |-> now, out |-> None, done |-> FALSE]
         \/ \E h \in BadSeries : sel = [h |-> h, now |-> now, out |-> None, done |-> FALSE]

\* one call _last_past_value(h, "pm10") at now_utc = sel.now
apply_last_past_value ==
    /\ ~sel.done
    /\ sel' = [sel EXCEPT !.out = last_past_value(sel.h, "pm10", sel.now), !.done = TRUE]
    /\ UNCHANGED <<pc, clock, cycle, scenario, gauge, so_tag_count, health, LAST_SO_POLL,
                   ret, btc_ret, hist>>

NextSel == apply_last_past_value

SpecSel == InitSel /\ [][NextSel]_vars

(* ------------------------------------------------------------------ *)
(* Properties                                                          *)
(* ------------------------------------------------------------------ *)
SelTimesOf(h) == h.v.time.v
SelValuesOf(h) == h.v.pm10.v

\* a valid series: two lists of the same non-zero length
ValidSeries(h) ==
    /\ In("time", h) /\ In("pm10", h)
    /\ h.v.time.t = "list" /\ h.v.pm10.t = "list"
    /\ Len(h.v.time.v) = Len(h.v.pm10.v) /\ Len(h.v.time.v) > 0

\* every timestamp parses and none is earlier than the one before it
Ascending(ts) ==
    /\ \A i \in 1..Len(ts) : parse_iso_ts(ts[i]).ok
    /\ \A i \in 1..Len(ts) - 1 : parse_iso_ts(ts[i]).at <= parse_iso_ts(ts[i + 1]).at

\* the indices whose timestamp is not after now and whose value is not null
PastNonNull(ts, vs, now) ==
    { i \in 1..Len(ts) : parse_iso_ts(ts[i]).ok /\ parse_iso_ts(ts[i]).at <= now /\ vs[i] # JNull }

MaxOf(S) == CHOOSE i \in S : \A j \in S : j <= i

\* C2: for a valid series with ascending timestamps, _last_past_value returns
\* the number at the latest timestamp <= now whose value is not null (so a null
\* at the latest past timestamp makes it fall back to the next earlier past
\* index with a non-null value), and returns absent when every timestamp is in
\* the future.
C2_LatestPastValue ==
    (sel.done /\ ValidSeries(sel.h) /\ Ascending(SelTimesOf(sel.h))) =>
        LET ts == SelTimesOf(sel.h)
            vs == SelValuesOf(sel.h)
            P == PastNonNull(ts, vs, sel.now)
        IN /\ (\A i \in 1..Len(ts) : parse_iso_ts(ts[i]).at > sel.now) => sel.out = None
           /\ P = {} => sel.out = None
           /\ (P # {} /\ Convertible(vs[MaxOf(P)])) => sel.out = Some(Float(vs[MaxOf(P)]))

\* the spec's example, [T-3h, T-1h, T+1h] with [1, 2, 3] at now = T, has given 2
C2_Witness ==
    /\ sel.done
    /\ sel.now = SelNow
    /\ ValidSeries(sel.h)
    /\ SelTimesOf(sel.h) = <<Naive(SelNow - 3 * Hour), Naive(SelNow - Hour), Aware(SelNow + Hour)>>
    /\ SelValuesOf(sel.h) = <<JNum(1), JNum(2), JNum(3)>>
    /\ sel.out = Some(2)

\* the step issued a request; each step issues at most one
Requested == nreq' = nreq + 1
\* the source the step's request went to
ReqApi == ApiOf(run'.urls[Len(run'.urls)])
\* what the network answered to the latest request of the current run
LastResp == run.resps[Len(run.resps)]

OthersUnchanged(f, a) == \A b \in Apis \ {a} : f'[b] = f[b]

\* what C1 says of both counters together, of the latency and of the timestamp
C1_Bookkeeping ==
    /\ (api_success_total'[ReqApi] - api_success_total[ReqApi])
         + (api_fail_total'[ReqApi] - api_fail_total[ReqApi]) = 1
    /\ api_success_total'[ReqApi] - api_success_total[ReqApi] \in {0, 1}
    /\ api_fail_total'[ReqApi] - api_fail_total[ReqApi] \in {0, 1}
    /\ OthersUnchanged(api_success_total, ReqApi)
    /\ OthersUnchanged(api_fail_total, ReqApi)
    /\ (api_fail_total'[ReqApi] = api_fail_total[ReqApi] + 1)
         <=> (ret'.data = JNull /\ ret'.err # "none")
    /\ api_latency_count'[ReqApi] = api_latency_count[ReqApi] + 1
    /\ api_latency_sum'[ReqApi] = api_latency_sum[ReqApi] + ret'.latency
    /\ OthersUnchanged(api_latency_count, ReqApi)
    /\ api_last_scrape'[ReqApi] = Val(clock')
    /\ OthersUnchanged(api_last_scrape, ReqApi)

\* C1 as claimed: at every fetch attempt exactly one of the source's two
\* counters goes up by 1, the failure counter iff the payload is absent and the
\* error is not none, the success counter iff a payload is returned with no
\* error; one latency observation is recorded and the last-attempt timestamp
\* is set, for that source.
C1_AsClaimed ==
    [][Requested =>
         /\ C1_Bookkeeping
         /\ (api_success_total'[ReqApi] = api_success_total[ReqApi] + 1)
              <=> (ret'.data # JNull /\ ret'.err = "none")]_vars

\* C1 amended: the success counter goes up iff the returned error is none; the
\* payload returned with it is absent when the body decodes to JSON null.
C1_OneCounterPerAttempt ==
    [][Requested =>
         /\ C1_Bookkeeping
         /\ (api_success_total'[ReqApi] = api_success_total[ReqApi] + 1)
              <=> (ret'.err = "none")]_vars

\* a weather request answered with the body `null` has been counted: as a
\* success, with one latency observation for it
C1_Witness ==
    /\ run.coll = "weather" /\ pc = "air_current"
    /\ LastResp.status = "ok" /\ LastResp.body = JNull
    /\ ret.data = JNull /\ ret.err = "none"
    /\ api_success_total["openmeteo_weather"] = 2
    /\ api_fail_total["openmeteo_weather"] = 0
    /\ api_latency_count["openmeteo_weather"] = 2
    /\ api_last_scrape["openmeteo_weather"] = Val(clock)

\* the payload has a "price" that float() converts
NumericPrice(d) == In("price", d) /\ Convertible(d.v.price)

\* C4: in a run of poll_crypto both requests are issued whatever the first one
\* gives (and the first changes no gauge); with BTC failed and ETH answered
\* with a numeric price the ETH gauge is set to that price and the BTC gauge
\* keeps its value, and the same with the two exchanged.
C4_CryptoIndependent ==
    [][/\ (pc = "btc" /\ pc' # "btc") => (pc' = "eth" /\ gauge' = gauge)
       /\ (pc = "eth" /\ pc' # "eth") =>
            /\ run'.urls = <<"btc", "eth">>
            /\ (btc_ret.err # "none" /\ ret'.err = "none" /\ NumericPrice(ret'.data)) =>
                  /\ gauge'["crypto_eth_usd"] = Val(Float(ret'.data.v.price))
                  /\ gauge'["crypto_btc_usd"] = gauge["crypto_btc_usd"]
            /\ (ret'.err # "none" /\ btc_ret.err = "none" /\ NumericPrice(btc_ret.data)) =>
                  /\ gauge'["crypto_btc_usd"] = Val(Float(btc_ret.data.v.price))
                  /\ gauge'["crypto_eth_usd"] = gauge["crypto_eth_usd"]
            /\ \A n \in GaugeNames \ {"crypto_btc_usd", "crypto_eth_usd"} : gauge'[n] = gauge[n]
      ]_vars

\* BTC was 18; then the BTC request failed and ETH came back at 54
C4_Witness ==
    /\ run.coll = "crypto" /\ pc = "so"
    /\ btc_ret.err # "none" /\ ret.err = "none"
    /\ gauge["crypto_btc_usd"] = Val(18)
    /\ gauge["crypto_eth_usd"] = Val(54)

\* C8: when the fetch of poll_openmeteo_weather, poll_fx or poll_stackoverflow
\* fails (connection error, timeout, HTTP error status, undecodable body), the
\* collector returns and no gauge and no tag count has changed.
C8_FailedFetchKeepsMetrics ==
    [][(Requested /\ run'.coll \in {"weather", "fx", "so"} /\ LastResp'.status # "ok") =>
         /\ gauge' = gauge
         /\ so_tag_count' = so_tag_count
         /\ fault' = fault]_vars

\* the temperature was 18 when the next weather request timed out
C8_Witness ==
    /\ run.coll = "weather" /\ pc = "air_current"
    /\ LastResp.status = "timeout" /\ ret.err = "Timeout"
    /\ gauge["weather_temperature_c"] = Val(18)
    /\ gauge["weather_wind_speed_ms"] = Val(10)

\* C10: timed_get lets no exception through: a connection error, a timeout, an
\* HTTP error status and an undecodable body all come back as
\* (None, elapsed seconds, the error), and the collector goes on.
C10_FetcherNeverRaises ==
    [][Requested =>
         /\ ret'.exc = "none"
         /\ LastResp'.status # "ok" =>
              /\ ret'.data = JNull
              /\ ret'.latency = LastResp'.lat
              /\ ret'.err = Raised(LastResp')
              /\ ret'.err # "none"
              /\ fault' = fault]_vars

\* an undecodable body has come back from timed_get as data
C10_Witness ==
    /\ run.coll = "fx" /\ pc = "btc"
    /\ LastResp.status = "bad_json"
    /\ ret = [data |-> JNull, latency |-> 1, err |-> "JSONDecodeError", exc |-> "none"]
    /\ fault = "none"

Order == <<"weather", "air", "fx", "crypto", "so">>
Collectors == {Order[i] : i \in 1..Len(Order)}
IndexOf(c) == CHOOSE i \in 1..Len(Order) : Order[i] = c
\* the collectors from the first up to c
Upto(c) == {Order[i] : i \in 1..IndexOf(c)}

AirGauges == <<"air_pm10_ugm3", "air_pm25_ugm3", "air_us_aqi">>
AirKeys == <<"pm10", "pm2_5", "us_aqi">>

\* the "current" section of the payload is there and its parse raises nothing
CurrentParses(g, r) ==
    /\ r.err = "none"
    /\ In("current", r.data)
    /\ SetFields(g, r.data.v.current, AirSpecs, 1).ok

\* C3: a run of poll_openmeteo_air issues the current-conditions request first;
\* when that succeeds with a "current" section that parses the run is over
\* without an hourly request; when it fails, has no "current" section or the
\* section does not parse, one hourly request follows, and when that succeeds
\* with an "hourly" section each of the three gauges is set to what
\* _last_past_value gives, if it gives a value.  No run issues a third request.
C3_AsClaimed ==
    [][/\ (pc = "air_current" /\ pc' # pc) =>
            /\ run'.urls = <<"air_current">>
            /\ IF CurrentParses(gauge, ret') THEN pc' = "fx" ELSE pc' = "air_hourly"
       /\ (pc = "air_hourly" /\ pc' # pc) =>
            /\ run'.urls = <<"air_current", "air_hourly">>
            /\ pc' \in {"fx", "sleep"}
            /\ (ret'.err = "none" /\ In("hourly", ret'.data)) =>
                 \A i \in 1..3 :
                    LET x == last_past_value(ret'.data.v.hourly, AirKeys[i], clock') IN
                    x.ok => gauge'[AirGauges[i]] = Val(x.v)
       /\ (pc' = "air_hourly" /\ pc # pc') => pc = "air_current"
      ]_vars

\* C6 as claimed: when a collector raises, every other collector still runs in
\* that cycle.
C6_AsClaimed ==
    (pc = "sleep" /\ fault # "none") => (Collectors \ {fault}) \subseteq ran

\* C6 amended: when a collector raises, the exception is caught by the loop,
\* which goes to its sleep and then on to the next cycle; the collectors before
\* the raising one have run in that cycle and their metrics stay as they set
\* them (the raising step changes no metric), and the collectors after it do
\* not run in that cycle.
C6_FaultEndsCycleOnly ==
    /\ [](fault # "none" =>
            /\ pc = "sleep"
            /\ ran = Upto(fault)
            /\ (cycle + 1 < CycleBound) => ENABLED sleep)
    /\ [][(fault' # fault /\ fault' # "none") =>
            (gauge' = gauge /\ so_tag_count' = so_tag_count)]_vars
    /\ [][(pc = "sleep" /\ pc' # "sleep") =>
            (pc' = "weather" /\ cycle' = cycle + 1 /\ gauge' = gauge
               /\ so_tag_count' = so_tag_count)]_vars

\* poll_fx raised in the second cycle, after weather and air quality had
\* published, and the loop is at its sleep
C6_Witness ==
    /\ cycle = 1 /\ pc = "sleep" /\ fault = "fx"
    /\ ran = {"weather", "air", "fx"}
    /\ gauge["weather_temperature_c"] = Val(18)
    /\ gauge["air_pm10_ugm3"] = Val(18)

\* C7: the loop never ends: whether the cycle ran to its end or an exception
\* cut it short, the loop sleeps SCRAPE_INTERVAL (and what the scheduler adds,
\* never more for a cycle that failed) and starts the next cycle at the
\* weather collector; the cycle counter only moves there, one at a time, so
\* every cycle up to the model's bound is started and reaches its sleep.
C7_LoopNeverStops ==
    /\ <>(cycle + 1 = CycleBound /\ pc = "sleep")
    /\ [](pc \in {"weather", "air_current", "air_hourly", "fx", "btc", "eth", "so", "sleep"})
    /\ [][(pc = "sleep" /\ pc' # "sleep") =>
            /\ pc' = "weather"
            /\ cycle' = cycle + 1
            /\ clock' - clock - SCRAPE_INTERVAL \in SleepOverrun]_vars
    /\ [](pc = "sleep" /\ cycle + 1 < CycleBound =>
            ENABLED (sleep /\ clock' = clock + SCRAPE_INTERVAL))

\* the third cycle starts although the first two were both cut short at the
\* weather collector
C7_Witness ==
    /\ cycle = 2 /\ pc = "weather" /\ nreq = 2
    /\ api_success_total["openmeteo_weather"] = 2

SoApi == ApiOf("so")

\* an invocation of poll_stackoverflow that issues no request
SoNoRequest == pc = "so" /\ pc' # "so" /\ nreq' = nreq

SoUntouched ==
    /\ api_last_scrape'[SoApi] = api_last_scrape[SoApi]
    /\ api_success_total'[SoApi] = api_success_total[SoApi]
    /\ api_fail_total'[SoApi] = api_fail_total[SoApi]
    /\ api_latency_count'[SoApi] = api_latency_count[SoApi]
    /\ api_latency_sum'[SoApi] = api_latency_sum[SoApi]
    /\ so_tag_count' = so_tag_count

\* any two requests of poll_stackoverflow are SO_MIN_PERIOD apart or more
SoSpaced ==
    \A i, j \in 1..Len(so_req_times) :
        i < j => so_req_times[j] - so_req_times[i] >= SO_MIN_PERIOD

\* C5 as claimed: poll_stackoverflow is invoked in every cycle; any two of its
\* requests are at least SO_MIN_PERIOD apart; an invocation without a request
\* leaves the source's health entries and the tag counts as they were.
C5_AsClaimed ==
    /\ [](pc = "sleep" => "so" \in ran)
    /\ [](SoSpaced)
    /\ [][SoNoRequest => SoUntouched]_vars

\* the responses of the run of a collector that is over
RunOver ==
    /\ run.coll \in Collectors
    /\ pc \notin {"air_hourly", "eth"}
    /\ Len(run.resps) >= 1

AllOk(resps) == \A i \in 1..Len(resps) : timed_get(resps[i]).err = "none" /\ timed_get(resps[i]).exc = "none"

\* The metrics after one more run of collector coll on metrics (g, tags), the
\* requests answered by resps and now_utc = now in the air-quality fallback.
Rerun(coll, g, tags, resps, now) ==
    CASE coll = "weather" -> [g |-> weather_body(g, timed_get(resps[1])).g, tags |-> tags]
      [] coll = "air" ->
            LET a == air_current_body(g, timed_get(resps[1])) IN
            [g |-> IF a.next = "hourly" /\ Len(resps) = 2
                   THEN air_hourly_body(a.g, timed_get(resps[2]), now).g
                   ELSE a.g,
             tags |-> tags]
      [] coll = "fx" -> [g |-> fx_body(g, timed_get(resps[1])).g, tags |-> tags]
      [] coll = "crypto" ->
            [g |-> IF Len(resps) = 2
                   THEN crypto_body(g, timed_get(resps[1]), timed_get(resps[2]))
                   ELSE g,
             tags |-> tags]
      [] OTHER -> [g |-> g, tags |-> so_body(tags, timed_get(resps[1])).tags]

\* how long after the first run's end the second run reads its clock
RerunDelays == {1, SCRAPE_INTERVAL, Hour}

\* the parseable timestamps of the hourly payload, when the run fetched one
HourlyTimes(resps) ==
    IF Len(resps) < 2 THEN {}
    ELSE LET times == Get(Get(resps[2].body, "hourly"), "time") IN
         IF times.t # "list" THEN {}
         ELSE { parse_iso_ts(times.v[i]).at :
                  i \in { k \in 1..Len(times.v) : parse_iso_ts(times.v[k]).ok } }

\* C9 as claimed: a second run of a collector with the same successful fetches
\* and the same payloads leaves every metric as the first run left it.
C9_AsClaimed ==
    (RunOver /\ AllOk(run.resps)) =>
        \A d \in RerunDelays :
            Rerun(run.coll, gauge, so_tag_count, run.resps, clock + d)
                = [g |-> gauge, tags |-> so_tag_count]

\* C9 amended: a second run of a collector with the same successful fetches and
\* the same payloads leaves every metric as the first run left it, provided
\* that no timestamp of an hourly air-quality payload lies after the first
\* run's now_utc and not after the second's: values are replaced, not added.
C9_IdempotentWithinTheHour ==
    (RunOver /\ AllOk(run.resps)) =>
        \A d \in RerunDelays :
            (\A at \in HourlyTimes(run.resps) : ~(clock < at /\ at <= clock + d)) =>
                Rerun(run.coll, gauge, so_tag_count, run.resps, clock + d)
                    = [g |-> gauge, tags |-> so_tag_count]

\* the tag counts were set twice from the same payload, and the air-quality
\* fallback has published the values of the hour that has begun
C9_Witness ==
    /\ cycle >= 1 /\ run.coll = "so" /\ pc = "sleep"
    /\ Len(so_req_times) = 2 /\ AllOk(run.resps)
    /\ LastResp.body = SoOk
    /\ so_tag_count = [t \in Tags |-> IF t = "linux" THEN Val(36) ELSE Val(18)]
    /\ gauge["air_pm10_ugm3"] = Val(36)

(* ------------------------------------------------------------------ *)
(* The selector: values that are no numbers, timestamps out of order   *)
(* ------------------------------------------------------------------ *)
\* the indices whose timestamp parses and is not after now
Past(ts, now) == { i \in 1..Len(ts) : parse_iso_ts(ts[i]).ok /\ parse_iso_ts(ts[i]).at <= now }

\* those of them whose value is a number
PastNumeric(ts, vs, now) == { i \in Past(ts, now) : vs[i] # JNull /\ Convertible(vs[i]) }

\* C11: when the entry at the most recent timestamp <= now has a non-null value
\* that float() does not convert, _last_past_value skips it and goes on
\* backward: it returns the value at the next earlier index with a timestamp
\* <= now and a non-null convertible value, not absent.  (Stated for ascending
\* timestamps, where the most recent past entry is the one with the highest
\* index.)
C11_AsClaimed ==
    (sel.done /\ ValidSeries(sel.h) /\ Ascending(SelTimesOf(sel.h))) =>
        LET ts == SelTimesOf(sel.h)
            vs == SelValuesOf(sel.h)
            P == Past(ts, sel.now)
            Q == PastNumeric(ts, vs, sel.now)
        IN (P # {} /\ vs[MaxOf(P)] # JNull /\ ~Convertible(vs[MaxOf(P)]) /\ Q # {}) =>
              sel.out = Some(Float(vs[MaxOf(Q)]))

\* the past entries with a number whose timestamp no other such entry exceeds
LatestNumeric(ts, vs, now) ==
    { i \in PastNumeric(ts, vs, now) :
        \A j \in PastNumeric(ts, vs, now) : parse_iso_ts(ts[j]).at <= parse_iso_ts(ts[i]).at }

\* C12: for every valid series, whatever the order of its timestamps,
\* _last_past_value returns the value paired with the greatest timestamp that
\* is not after now, among the entries with a parseable timestamp and a
\* non-null numeric value.  (Stated for series whose values are numbers or
\* null, so that the case of C11 does not arise.)
C12_AsClaimed ==
    (sel.done /\ ValidSeries(sel.h)
       /\ \A i \in 1..Len(SelValuesOf(sel.h)) :
             SelValuesOf(sel.h)[i] = JNull \/ Convertible(SelValuesOf(sel.h)[i])) =>
        LET ts == SelTimesOf(sel.h)
            vs == SelValuesOf(sel.h)
            L == LatestNumeric(ts, vs, sel.now)
        IN IF L = {} THEN sel.out = None
           ELSE \E i \in L : sel.out = Some(Float(vs[i]))

(* ------------------------------------------------------------------ *)
(* Fields that are missing, null or no numbers                         *)
(* ------------------------------------------------------------------ *)
Absent(c, key) == ~In(key, c) \/ c.v[key] = JNull
Numeric(c, key) == In(key, c) /\ Convertible(c.v[key])

\* a section in which every field is missing, null or a number
NoBadField(c, specs) ==
    /\ c.t = "dict"
    /\ \A i \in 1..Len(specs) : Absent(c, specs[i].key) \/ Numeric(c, specs[i].key)

\* from g to g2 each missing or null field kept its gauge and each numeric
\* field was published
NullsSkipped(c, specs, g, g2) ==
    \A i \in 1..Len(specs) :
        LET s == specs[i] IN
        IF Absent(c, s.key) THEN g2[s.gauge] = g[s.gauge]
        ELSE g2[s.gauge] = Val(Conv(s, c.v[s.key]))

\* the step is the one that parses the section `key` of a successful response
Parses(at, key) == pc = at /\ pc' # at /\ ret'.exc = "none" /\ Guard(ret', key) = "parse"

PriceSpec(name) == <<FieldSpec("price", name, TRUE, FALSE)>>

\* the items are objects with a name each, no two the same, and a count that
\* is missing, null or a number
PlainItems(items) ==
    /\ items.t = "list"
    /\ \A i \in 1..Len(items.v) :
          /\ items.v[i].t = "dict"
          /\ In("name", items.v[i]) /\ items.v[i].v.name.t = "name"
          /\ Absent(items.v[i], "count") \/ Numeric(items.v[i], "count")
    /\ \A i, j \in 1..Len(items.v) : items.v[i].v.name = items.v[j].v.name => i = j

\* C13: in every collector a field that is missing from a successful response,
\* or null in it, is skipped: its metric keeps its value, nothing is raised for
\* it, and the other fields of the response are still processed and published.
C13_AsClaimed ==
    [][/\ (Parses("weather", "current") /\ NoBadField(ret'.data.v.current, WeatherSpecs)) =>
            /\ NullsSkipped(ret'.data.v.current, WeatherSpecs, gauge, gauge')
            /\ fault' = fault
       /\ (Parses("air_current", "current") /\ NoBadField(ret'.data.v.current, AirSpecs)) =>
            /\ NullsSkipped(ret'.data.v.current, AirSpecs, gauge, gauge')
            /\ fault' = fault /\ pc' = "fx"
       /\ (Parses("fx", "rates") /\ NoBadField(ret'.data.v.rates, FxSpecs)) =>
            /\ NullsSkipped(ret'.data.v.rates, FxSpecs, gauge, gauge')
            /\ fault' = fault
       /\ (pc = "eth" /\ pc' # "eth" /\ btc_ret.err = "none" /\ ret'.err = "none"
             /\ NoBadField(btc_ret.data, PriceSpec("crypto_btc_usd"))
             /\ NoBadField(ret'.data, PriceSpec("crypto_eth_usd"))) =>
            /\ NullsSkipped(btc_ret.data, PriceSpec("crypto_btc_usd"), gauge, gauge')
            /\ NullsSkipped(ret'.data, PriceSpec("crypto_eth_usd"), gauge, gauge')
            /\ fault' = fault
       /\ (Parses("so", "items") /\ PlainItems(ret'.data.v.items)) =>
            /\ \A i \in 1..Len(ret'.data.v.items.v) :
                  LET item == ret'.data.v.items.v[i]
                      n == item.v.name.v
                  IN IF Absent(item, "count")
                     THEN IF n \in DOMAIN so_tag_count
                          THEN n \in DOMAIN so_tag_count' /\ so_tag_count'[n] = so_tag_count[n]
                          ELSE n \notin DOMAIN so_tag_count'
                     ELSE n \in DOMAIN so_tag_count'
                            /\ so_tag_count'[n] = Val(Float(item.v.count))
            /\ fault' = fault
      ]_vars

\* the field is there with a value that is neither null nor a number
NonNumeric(c, key) == In(key, c) /\ c.v[key] # JNull /\ ~Convertible(c.v[key])

\* a section with no null field in it
NoNullField(c, specs) ==
    /\ c.t = "dict"
    /\ \A i \in 1..Len(specs) : In(specs[i].key, c) => c.v[specs[i].key] # JNull

\* from g to g2 each non-numeric field kept its gauge and each numeric field
\* was published, wherever it stands
BadFieldAlone(c, specs, g, g2) ==
    \A i \in 1..Len(specs) :
        LET s == specs[i] IN
        /\ NonNumeric(c, s.key) => g2[s.gauge] = g[s.gauge]
        /\ Numeric(c, s.key) => g2[s.gauge] = Val(Conv(s, c.v[s.key]))

\* C14: in every collector a field with a non-numeric value is a parse failure
\* of that field only: its metric keeps its value, and every other field of
\* the same response that is there and numeric (in poll_crypto, the price of
\* the other pair) is written in that run, those after the failing field too.
\* (Stated for sections without null fields, and for poll_stackoverflow for
\* items with a name and a count each.)
C14_AsClaimed ==
    [][/\ (Parses("weather", "current") /\ NoNullField(ret'.data.v.current, WeatherSpecs)) =>
            BadFieldAlone(ret'.data.v.current, WeatherSpecs, gauge, gauge')
       /\ (Parses("air_current", "current") /\ NoNullField(ret'.data.v.current, AirSpecs)) =>
            BadFieldAlone(ret'.data.v.current, AirSpecs, gauge, gauge')
       /\ (Parses("fx", "rates") /\ NoNullField(ret'.data.v.rates, FxSpecs)) =>
            BadFieldAlone(ret'.data.v.rates, FxSpecs, gauge, gauge')
       /\ (pc = "eth" /\ pc' # "eth" /\ btc_ret.err = "none" /\ ret'.err = "none"
             /\ NoNullField(btc_ret.data, PriceSpec("crypto_btc_usd"))
             /\ NoNullField(ret'.data, PriceSpec("crypto_eth_usd"))) =>
            /\ BadFieldAlone(btc_ret.data, PriceSpec("crypto_btc_usd"), gauge, gauge')
            /\ BadFieldAlone(ret'.data, PriceSpec("crypto_eth_usd"), gauge, gauge')
       /\ (Parses("so", "items") /\ ret'.data.v.items.t = "list"
             /\ \A i \in 1..Len(ret'.data.v.items.v) :
                   LET item == ret'.data.v.items.v[i] IN
                   /\ item.t = "dict" /\ In("name", item) /\ item.v.name.t = "name"
                   /\ In("count", item) /\ item.v.count # JNull) =>
            \A i \in 1..Len(ret'.data.v.items.v) :
                LET item == ret'.data.v.items.v[i] IN
                Numeric(item, "count") =>
                    /\ item.v.name.v \in DOMAIN so_tag_count'
                    /\ so_tag_count'[item.v.name.v] = Val(Float(item.v.count))
      ]_vars

\* the key of the section a collector without fallback expects
SectionOf(coll) ==
    CASE coll = "weather" -> "current"
      [] coll = "fx" -> "rates"
      [] OTHER -> "items"

\* C15: for weather, currency and tag statistics, a response that decodes but
\* has not the expected top-level section is handled like a failed fetch: the
\* source's failure counter records it, and the collector returns without
\* changing any metric.
C15_AsClaimed ==
    [][(Requested /\ run'.coll \in {"weather", "fx", "so"}
          /\ LastResp'.status = "ok" /\ LastResp'.body.t = "dict"
          /\ ~In(SectionOf(run'.coll), LastResp'.body)) =>
         /\ api_fail_total'[ReqApi] = api_fail_total[ReqApi] + 1
         /\ api_success_total'[ReqApi] = api_success_total[ReqApi]
         /\ gauge' = gauge
         /\ so_tag_count' = so_tag_count
         /\ fault' = fault]_vars

(* ------------------------------------------------------------------ *)
(* The order of a cycle                                                *)
(* ------------------------------------------------------------------ *)
\* the collector a position of the loop belongs to
CollAt(p) ==
    CASE p = "weather" -> "weather"
      [] p \in {"air_current", "air_hourly"} -> "air"
      [] p = "fx" -> "fx"
      [] p \in {"btc", "eth"} -> "crypto"
      [] OTHER -> "so"

\* where the loop goes when the collector at position p returns
After(p) ==
    CASE p = "weather" -> {"air_current"}
      [] p = "air_current" -> {"air_hourly", "fx"}
      [] p = "air_hourly" -> {"fx"}
      [] p = "fx" -> {"btc"}
      [] p = "btc" -> {"eth"}
      [] p = "eth" -> {"so"}
      [] OTHER -> {"sleep"}

\* the first k collectors of the order
FirstK(k) == {Order[i] : i \in 1..k}

\* C16: in each cycle the collectors are invoked one after the other in the
\* order weather, air quality, currency, crypto, tag statistics; an exception
\* that escapes a collector is caught at the end of the cycle: the collectors
\* after it are not invoked in that cycle, those before it have run and keep
\* what they published, and the next cycle starts again at weather.
C16_FixedOrderFaultSkipsRest ==
    /\ [](\E k \in 0..Len(Order) : ran = FirstK(k))
    /\ [](pc # "sleep" => ran = FirstK(IndexOf(CollAt(pc)) - (IF pc \in {"air_hourly", "eth"} THEN 0 ELSE 1)))
    /\ [][(pc # "sleep" /\ pc' # pc) =>
            /\ ran' = Upto(CollAt(pc))
            /\ IF fault' = "none"
               THEN pc' \in After(pc) /\ fault = "none"
               ELSE /\ fault' = CollAt(pc) /\ pc' = "sleep"
                    /\ metrics' = metrics]_vars
    /\ [][(pc = "sleep" /\ pc' # pc) =>
            /\ pc' = "weather" /\ ran' = {} /\ fault' = "none"
            /\ cycle' = cycle + 1
            /\ metrics' = metrics]_vars

\* the second cycle was cut short by poll_openmeteo_air at its hourly
\* request: weather has published in it, the currency gauge is still the
\* first cycle's, crypto and tag statistics were not invoked
C16_Witness ==
    /\ cycle = 1 /\ pc = "sleep" /\ fault = "air"
    /\ run.coll = "air" /\ Len(run.urls) = 2
    /\ ran = {"weather", "air"}
    /\ gauge["weather_temperature_c"] = Val(18)
    /\ gauge["fx_usd_kzt"] = Val(18)
    /\ Len(so_req_times) = 1

(* ------------------------------------------------------------------ *)
(* What may change a metric                                            *)
(* ------------------------------------------------------------------ *)
\* the section `key` of a triple returned without error, null when there is none
Sec(r, key) == IF r.err = "none" /\ In(key, r.data) THEN r.data.v[key] ELSE JNull

\* a gauge of specs that differs in g2 was set from its own numeric field of c
OwnFieldOnly(c, specs, g, g2) ==
    \A i \in 1..Len(specs) :
        LET s == specs[i] IN
        g2[s.gauge] # g[s.gauge] =>
            (Numeric(c, s.key) /\ g2[s.gauge] = Val(Conv(s, c.v[s.key])))

GaugesOf(specs) == {specs[i].gauge : i \in 1..Len(specs)}
OtherGaugesKept(names) == \A n \in GaugeNames \ names : gauge'[n] = gauge[n]

\* a tag count that is new or differs was set from an item of that name with
\* a numeric count
OwnItemOnly(items, tags, tags2) ==
    \A t \in DOMAIN tags2 :
        (tags2[t].set /\ (t \notin DOMAIN tags \/ tags2[t] # tags[t])) =>
            /\ items.t = "list"
            /\ \E i \in 1..Len(items.v) :
                  /\ Get(items.v[i], "name") = JName(t)
                  /\ Numeric(items.v[i], "count")
                  /\ tags2[t] = Val(Float(items.v[i].v.count))

\* C17: whatever the cycles and the answers, a metric that has a value never
\* loses it, and a metric changes only when its own field has been parsed from
\* a response fetched without error, to that field's value; the labels of the
\* tag count only grow, also when a response leaves a tag out.
C17_ValuesKeptLabelsGrow ==
    /\ [][/\ \A n \in GaugeNames : gauge[n].set => gauge'[n].set
          /\ \A t \in DOMAIN so_tag_count :
                t \in DOMAIN so_tag_count' /\ (so_tag_count[t].set => so_tag_count'[t].set)]_vars
    /\ [][/\ pc = "weather" =>
               /\ OwnFieldOnly(Sec(ret', "current"), WeatherSpecs, gauge, gauge')
               /\ OtherGaugesKept(GaugesOf(WeatherSpecs))
          /\ pc = "air_current" =>
               /\ OwnFieldOnly(Sec(ret', "current"), AirSpecs, gauge, gauge')
               /\ OtherGaugesKept(GaugesOf(AirSpecs))
          /\ pc = "air_hourly" =>
               /\ \A i \in 1..3 :
                     LET x == last_past_value(Sec(ret', "hourly"), AirKeys[i], clock') IN
                     gauge'[AirGauges[i]] # gauge[AirGauges[i]] =>
                         (x.ok /\ gauge'[AirGauges[i]] = Val(x.v))
               /\ OtherGaugesKept(GaugesOf(AirSpecs))
          /\ pc = "fx" =>
               /\ OwnFieldOnly(Sec(ret', "rates"), FxSpecs, gauge, gauge')
               /\ OtherGaugesKept(GaugesOf(FxSpecs))
          /\ pc = "btc" => gauge' = gauge
          /\ pc = "eth" =>
               /\ OwnFieldOnly(IF btc_ret.err = "none" THEN btc_ret.data ELSE JNull,
                               PriceSpec("crypto_btc_usd"), gauge, gauge')
               /\ OwnFieldOnly(IF ret'.err = "none" THEN ret'.data ELSE JNull,
                               PriceSpec("crypto_eth_usd"), gauge, gauge')
               /\ OtherGaugesKept({"crypto_btc_usd", "crypto_eth_usd"})
          /\ pc = "so" =>
               /\ gauge' = gauge
               /\ nreq' = nreq => so_tag_count' = so_tag_count
               /\ nreq' # nreq => OwnItemOnly(Sec(ret', "items"), so_tag_count, so_tag_count')
          /\ pc # "so" => so_tag_count' = so_tag_count
          /\ pc = "sleep" => gauge' = gauge]_vars

\* both tags had their counts when a response came with "linux" alone: the
\* label "tensorflow" is still there with its count
C17_Witness ==
    /\ run.coll = "so" /\ pc = "sleep" /\ Len(so_req_times) = 2
    /\ LastResp.body = Items(JList(<<Item(JName("linux"), JNum(54))>>))
    /\ so_tag_count = [t \in Tags |-> IF t = "linux" THEN Val(54) ELSE Val(18)]

(* ------------------------------------------------------------------ *)
(* The gate of poll_stackoverflow                                      *)
(* ------------------------------------------------------------------ *)
\* poll_stackoverflow is invoked and returns (or raises)
SoInvoked == pc = "so" /\ pc' # "so"

\* C18: the gate is armed before the request is sent, not when it succeeds:
\* the first invocation after the start issues a request (LAST_SO_POLL starts
\* at 0); an invocation that issues a request sets LAST_SO_POLL to the time it
\* read before the request, whether the request then fails, the payload has
\* no "items" or the collector raises; and no invocation issues a request
\* before SO_MIN_PERIOD has passed since then, so that a failed request is
\* not tried again in the next cycle.
C18_GateArmedBeforeRequest ==
    /\ [](so_req_times = <<>> => LAST_SO_POLL = 0)
    /\ [](so_req_times # <<>> => LAST_SO_POLL = so_req_times[Len(so_req_times)])
    /\ [][(SoInvoked /\ so_req_times = <<>>) => nreq' = nreq + 1]_vars
    /\ [][(SoInvoked /\ nreq' = nreq + 1) =>
            /\ clock - LAST_SO_POLL >= SO_MIN_PERIOD
            /\ LAST_SO_POLL' = clock
            /\ run'.urls = <<"so">>]_vars
    /\ [][(SoInvoked /\ clock - LAST_SO_POLL < SO_MIN_PERIOD) =>
            /\ nreq' = nreq
            /\ LAST_SO_POLL' = LAST_SO_POLL
            /\ api_fail_total' = api_fail_total
            /\ api_success_total' = api_success_total]_vars
    /\ [][~SoInvoked => LAST_SO_POLL' = LAST_SO_POLL]_vars

\* the request of the first cycle was refused, and the invocation of the next
\* cycle, 20 s later, has issued none
C18_Witness ==
    /\ cycle = 1 /\ pc = "sleep" /\ fault = "none"
    /\ run.coll = "so" /\ run.urls = <<>>
    /\ Len(so_req_times) = 1
    /\ clock - LAST_SO_POLL < 2 * SCRAPE_INTERVAL
    /\ api_fail_total[SoApi] = 1 /\ api_success_total[SoApi] = 0
    /\ DOMAIN so_tag_count = {}

(* ------------------------------------------------------------------ *)
(* An empty "current" section of the air-quality payload               *)
(* ------------------------------------------------------------------ *)
\* the "current" section is an object in which all three fields are missing or null
EmptyCurrent(r) ==
    /\ r.err = "none"
    /\ In("current", r.data)
    /\ r.data.v.current.t = "dict"
    /\ \A i \in 1..Len(AirSpecs) : Absent(r.data.v.current, AirSpecs[i].key)

\* C19: when the current-conditions request of poll_openmeteo_air succeeds and
\* the payload has a "current" section in which pm10, pm2_5 and us_aqi are all
\* missing or null, the collector returns without the hourly request and
\* without changing an air-quality gauge; the fallback follows only a failed
\* request, a payload without "current" or an exception while parsing it.
C19_EmptyCurrentNoFallback ==
    [][/\ (pc = "air_current" /\ pc' # pc /\ EmptyCurrent(ret')) =>
            /\ pc' = "fx"
            /\ run'.urls = <<"air_current">>
            /\ gauge' = gauge
            /\ fault' = fault
       /\ (pc = "air_current" /\ pc' = "air_hourly") =>
            \/ ret'.err # "none"
            \/ ~In("current", ret'.data)
            \/ ~SetFields(gauge, ret'.data.v.current, AirSpecs, 1).ok
       /\ (pc' = "air_hourly" /\ pc # pc') => pc = "air_current"
      ]_vars

\* the three gauges were set when a payload came whose "current" section holds
\* three nulls: poll_fx is next and the gauges are as they were
C19_Witness ==
    /\ run.coll = "air" /\ run.urls = <<"air_current">> /\ pc = "fx"
    /\ LastResp.body = WithCurrent(Air(JNull, JNull, JNull))
    /\ gauge["air_pm10_ugm3"] = Val(18)
    /\ gauge["air_pm25_ugm3"] = Val(36)
    /\ gauge["air_us_aqi"] = Val(54)

====
